---- MODULE Spec2Model ----
(***************************************************************************)
(* A model of the balance-scoring and AI-orchestration layer of GoalGenius *)
(* (class AIService, src/server/routes.ts).                                *)
(*                                                                         *)
(* Six specifications share the module:                                    *)
(*   Spec         one invocation of an AIService entry point               *)
(*                (generateSchedule, createGoalBasedPlan,                  *)
(*                generateChatResponse), one action per awaited step;      *)
(*   SpecBalance  the balance scorer applied to the events of a day;       *)
(*   SpecStreak   the streak routes called on successive calendar days;    *)
(*   SpecChat     the routes that write and read the chatMessages table;   *)
(*   SpecToggle   concurrent PATCH /events/:id/toggle-completion requests; *)
(*   SpecSocket   the client WebSocketService and its sockets and timers.  *)
(*                                                                         *)
(* JavaScript numbers that can be fractional (the balance score before     *)
(* Math.round) are kept in fixed point, in hundredths: 5400 stands for 54. *)
(***************************************************************************)
EXTENDS Integers, Sequences, FiniteSets, TLC

VARIABLES
  op,         \* the entry point being executed, "none" before the call
  request,    \* its request argument
  pc,         \* "idle", "lookup", "model", "returned" or "threw"
  attempt,    \* the loop variable attempt of the retry loop
  outcomes,   \* history: the outcome of every hf.textGeneration call made
  delays,     \* history: the setTimeout delays awaited, in ms
  lastText,   \* the generated_text of the last successful model call
  result,     \* the value returned to the caller
  inserted,   \* the batches handed to db.insert(events) that succeeded
  dayEvents,  \* SpecBalance: the {category, duration} list being analysed
  analysis,   \* SpecBalance: what calculateBalanceScore returned for it
  streaks,    \* SpecStreak: the rows of the streaks table of one user
  clock,      \* SpecStreak: the calendar day of new Date(), counted from 0
  chatMessages,  \* SpecChat: the rows of the chatMessages table
  history,       \* SpecChat: the last answer of GET /chat/history
  isCompleted,   \* SpecToggle: events.isCompleted of the event
  toggles,       \* SpecToggle: for each request, its position and what it read
  sockets,       \* SpecSocket: every WebSocket created, with its readyState
  ws,            \* SpecSocket: this.ws, an index into sockets, 0 for null
  isConnecting,  \* SpecSocket: this.isConnecting
  token,         \* SpecSocket: this.token, "" for null
  reconnectAttempts,  \* SpecSocket: this.reconnectAttempts
  timers,        \* SpecSocket: the number of pending setTimeout(connect) timers
  disconnected   \* SpecSocket: history, disconnect() was called after the last setToken

aiVars == <<op, request, pc, attempt, outcomes, delays, lastText, result, inserted>>
balanceVars == <<dayEvents, analysis>>
streakVars == <<streaks, clock>>
chatVars == <<chatMessages, history>>
toggleVars == <<isCompleted, toggles>>
socketVars ==
  <<sockets, ws, isConnecting, token, reconnectAttempts, timers, disconnected>>
\* the variables of the route and client specifications
routeVars == <<streakVars, chatVars, toggleVars, socketVars>>

vars == <<aiVars, balanceVars, routeVars>>

(***************************************************************************)
(* Bounds                                                                  *)
(***************************************************************************)
MaxEvents == 3      \* longest event list analysed
MaxDurUnits == 2    \* durations are 0, 8 hours and the half hours below MaxDurUnits
MaxProseLen == 2    \* longest generated text without a JSON object, in tokens
MaxNum == 3         \* numbers written in a timeframe are 0..MaxNum and 10
MaxChatLen == 3     \* longest chat reply of the model, in tokens
MaxDay == 8         \* last calendar day the streak routes are called on
MaxMessages == 4    \* most rows of the chatMessages table
MaxRequests == 3    \* most toggle-completion requests sent
MaxSockets == 3     \* most WebSockets the service creates

Max(a, b) == IF a >= b THEN a ELSE b
Min(a, b) == IF a <= b THEN a ELSE b
Abs(a) == IF a >= 0 THEN a ELSE 0 - a

\* the one element of a singleton set: { f(x) : x \in {e} } names e once
Only(S) == CHOOSE x \in S : TRUE

\* the value JavaScript calls undefined
Undefined == [kind |-> "undefined"]

(***************************************************************************)
(* Category taxonomy and the balance scorer                                *)
(***************************************************************************)
\* Object.keys(categoryBreakdown) / Object.keys(optimal), in insertion order
Categories == <<"work", "health", "leisure", "social", "learning">>
CategorySet == {Categories[i] : i \in 1..Len(Categories)}

optimal == [c \in CategorySet |->
             CASE c = "work" -> 40 [] c = "health" -> 25 [] c = "leisure" -> 20
               [] c = "social" -> 10 [] c = "learning" -> 5]

\* weights[key] * 0.4, in hundredths: 1.0, 1.2, 0.8, 0.6, 0.7 times 0.4
weights_undamped == [c \in CategorySet |->
             CASE c = "work" -> 100 [] c = "health" -> 120 [] c = "leisure" -> 80
               [] c = "social" -> 60 [] c = "learning" -> 70]
weights == [c \in CategorySet |->
             CASE c = "work" -> 40 [] c = "health" -> 48 [] c = "leisure" -> 32
               [] c = "social" -> 24 [] c = "learning" -> 28]

\* Math.round of a value given in hundredths; the result is in hundredths too
MathRound_none(x) == x
MathRound(x) == ((x + 50) \div 100) * 100

\* Math.round((part / total) * 100) of two integers, total > 0
Percentage(part, total) == (200 * part + total) \div (2 * total)

RECURSIVE SumDuration(_)
SumDuration(evs) ==
  IF evs = <<>> THEN 0 ELSE Head(evs).duration + SumDuration(Tail(evs))

\* events.reduce((sum, event) => sum + event.duration, 0): every event counts
totalTime(evs) == SumDuration(evs)

\* the forEach that adds event.duration to categoryBreakdown[event.category]
\* when categoryBreakdown.hasOwnProperty(event.category)
CategoryMinutes(evs, c) ==
  SumDuration(SelectSeq(evs, LAMBDA e : e.category = c))

Canned(category) == [kind |-> "canned", category |-> category, pct |-> 0]

\* the five tips of getFallbackSuggestions
getFallbackSuggestions ==
  << Canned("planning"), Canned("breaks"), Canned("health"),
     Canned("boundaries"), Canned("gratitude") >>

getFallbackBalance_getFallbackSuggestions ==
  [score |-> 6000,
   suggestions |-> getFallbackSuggestions,
   categoryBreakdown |-> [c \in CategorySet |->
             CASE c = "work" -> 45 [] c = "health" -> 20 [] c = "leisure" -> 20
               [] c = "social" -> 10 [] c = "learning" -> 5]]
getFallbackBalance ==
  [score |-> 6000,
   suggestions |-> << Canned("health"), Canned("leisure"), Canned("learning") >>,
   categoryBreakdown |-> [c \in CategorySet |->
             CASE c = "work" -> 45 [] c = "health" -> 20 [] c = "leisure" -> 20
               [] c = "social" -> 10 [] c = "learning" -> 5]]

\* Math.abs(diff) > 15
ExceedsThreshold_inclusive(diff) == Abs(diff) >= 15
ExceedsThreshold(diff) == Abs(diff) > 15

RECURSIVE SuggestionsFrom(_, _, _)
SuggestionsFrom(i, current, opt) ==
  IF i > Len(Categories) THEN <<>>
  ELSE LET c == Categories[i]
           diff == current[c] - opt[c]
           rest == SuggestionsFrom(i + 1, current, opt)
       IN IF ExceedsThreshold(diff)
          THEN << [kind |-> IF diff > 0 THEN "reduce" ELSE "increase",
                   category |-> c, pct |-> Abs(diff)] >> \o rest
          ELSE rest

generateBalanceSuggestions_noSlice(current, opt) ==
  LET s == SuggestionsFrom(1, current, opt)
  IN IF Len(s) = 0
     THEN << [kind |-> "affirm", category |-> "", pct |-> 0] >>
     ELSE s
generateBalanceSuggestions(current, opt) ==
  LET s == SuggestionsFrom(1, current, opt)
      t == IF Len(s) = 0
           THEN << [kind |-> "affirm", category |-> "", pct |-> 0] >>
           ELSE s
  IN SubSeq(t, 1, Min(3, Len(t)))

\* const deviation = Math.abs(categoryBreakdown[key] - optimal[key])
deviation_signed(breakdown, key) == breakdown[key] - optimal[key]
deviation(breakdown, key) == Abs(breakdown[key] - optimal[key])

RECURSIVE Penalty(_, _)
Penalty(i, breakdown) ==
  IF i > Len(Categories) THEN 0
  ELSE deviation(breakdown, Categories[i]) * weights[Categories[i]]
       + Penalty(i + 1, breakdown)

calculateBalanceScore(evs) ==
  IF totalTime(evs) = 0 THEN getFallbackBalance
  ELSE LET categoryBreakdown ==
             [c \in CategorySet |-> Percentage(CategoryMinutes(evs, c), totalTime(evs))]
           score == 100 * 100 - Penalty(1, categoryBreakdown)
       IN [score |-> Max(0, Min(100 * 100, MathRound(score))),
           suggestions |-> generateBalanceSuggestions(categoryBreakdown, optimal),
           categoryBreakdown |-> categoryBreakdown]

(***************************************************************************)
(* Values exchanged with the text-generation model                         *)
(*                                                                         *)
(* A generated text is a sequence of tokens: "w" is a run of prose without *)
(* braces, "fence" a markdown fence, "{" and "}" single brace characters,    *)
(* and a name of DocNames stands for the text of one syntactically valid   *)
(* JSON object (it begins with "{" and ends with "}"), whose parsed value  *)
(* is DocTable[name].  Strings that the code only tests for truthiness or  *)
(* copies are tuples, the empty string being <<>>; a time "HH:MM" is       *)
(* <<hours, minutes>>; a date string "YYYY-MM-DD" is the number of days    *)
(* after today, the literal placeholder 'YYYY-MM-DD' being Placeholder.    *)
(***************************************************************************)
Normal(v) == [threw |-> FALSE, value |-> v]
Throw(e) == [threw |-> TRUE, value |-> [kind |-> e]]

Placeholder == 0 - 1
NoDate == 0 - 2

Missing == [kind |-> "missing", items |-> <<>>]
NotArray == [kind |-> "string", items |-> <<>>]
Array(items) == [kind |-> "array", items |-> items]

ScheduleItem(title, category, startTime, endTime, date) ==
  [type |-> "object", title |-> title, category |-> category,
   startTime |-> startTime, endTime |-> endTime, date |-> date,
   resources |-> Missing]
NullItem == [type |-> "null", title |-> <<>>, category |-> "",
             startTime |-> <<>>, endTime |-> <<>>, date |-> NoDate,
             resources |-> Missing]
NumberItem == [type |-> "number", title |-> <<>>, category |-> "",
               startTime |-> <<>>, endTime |-> <<>>, date |-> NoDate,
               resources |-> Missing]
WithResources(item, resources) == [item EXCEPT !.resources = Array(resources)]

Milestone(week, dueDate) == [type |-> "object", week |-> week, dueDate |-> dueDate]
NullMilestone == [type |-> "null", week |-> 0, dueDate |-> NoDate]

\* JSON.parse("{}")
EmptyObject ==
  [goalTitle |-> <<>>, timeframe |-> <<>>, milestones |-> Missing,
   dailyTasks |-> Missing, schedule |-> Missing, analysis |-> Undefined,
   trackingMetrics |-> Missing, balanceAnalysis |-> Undefined,
   suggestions |-> Missing]

Gym == ScheduleItem(<<"Gym">>, "health", <<7, 0>>, <<8, 0>>, NoDate)
Standup == ScheduleItem(<<"Standup">>, "work", <<9, 0>>, <<9, 30>>, NoDate)
Drill == ScheduleItem(<<"Drill">>, "practice", <<10, 0>>, <<11, 0>>, NoDate)
NoEnd == ScheduleItem(<<"Lunch">>, "leisure", <<12, 0>>, <<>>, NoDate)
Study(date) ==
  WithResources(ScheduleItem(<<"Study">>, "learning", <<9, 0>>, <<10, 30>>, date),
                <<"LeetCode">>)

\* the balanceAnalysis literal of parseScheduleResponse and of
\* generateFallbackScheduleResponse
defaultBalanceAnalysis ==
  [workPercentage |-> 40, healthPercentage |-> 25, leisurePercentage |-> 20,
   socialPercentage |-> 10, learningPercentage |-> 5]

ModelBalance ==
  [workPercentage |-> 35, healthPercentage |-> 25, leisurePercentage |-> 20,
   socialPercentage |-> 15, learningPercentage |-> 5]

DocTable ==
  [ empty |-> EmptyObject,
    sched |-> [EmptyObject EXCEPT !.schedule = Array(<<Standup, Gym>>),
                                  !.balanceAnalysis = ModelBalance,
                                  !.suggestions = Array(<<"Take breaks">>)],
    schedBare |-> [EmptyObject EXCEPT !.schedule = Array(<<Drill, NoEnd, Gym>>)],
    schedNone |-> [EmptyObject EXCEPT !.schedule = Array(<<>>)],
    schedString |-> [EmptyObject EXCEPT !.schedule = NotArray,
                                        !.balanceAnalysis = ModelBalance],
    schedNull |-> [EmptyObject EXCEPT !.schedule = Array(<<Standup, NullItem>>)],
    schedNumber |-> [EmptyObject EXCEPT !.schedule = Array(<<NumberItem, Standup>>)],
    plan |-> [EmptyObject EXCEPT !.goalTitle = <<"Learn DSA">>,
                                 !.timeframe = <<"2 weeks">>,
                                 !.milestones = Array(<<Milestone(1, Placeholder),
                                                        Milestone(0, 9)>>),
                                 !.dailyTasks = Array(<<"Solve problems">>),
                                 !.schedule = Array(<<Study(Placeholder), Study(5)>>),
                                 !.analysis = [feasibilityScore |-> 85,
                                               estimatedSuccessRate |-> 75],
                                 !.trackingMetrics = Array(<<"Problems Solved">>)],
    planBare |-> [EmptyObject EXCEPT !.goalTitle = <<"Learn DSA">>,
                                     !.milestones = Array(<<>>),
                                     !.dailyTasks = Array(<<>>),
                                     !.schedule = Array(<<>>)],
    planNoSchedule |-> [EmptyObject EXCEPT !.goalTitle = <<"Learn DSA">>,
                                           !.milestones = Array(<<Milestone(2, 3)>>),
                                           !.dailyTasks = Array(<<"Solve problems">>)],
    planNoTitle |-> [EmptyObject EXCEPT !.milestones = Array(<<Milestone(1, 7)>>),
                                        !.dailyTasks = Array(<<"Solve problems">>),
                                        !.schedule = Array(<<Study(0), Gym>>)],
    planNullMilestone |-> [EmptyObject EXCEPT !.goalTitle = <<"Learn DSA">>,
                                              !.milestones = Array(<<NullMilestone>>),
                                              !.dailyTasks = Array(<<"Solve problems">>),
                                              !.schedule = Array(<<Study(0)>>)],
    planNumberItem |-> [EmptyObject EXCEPT !.goalTitle = <<"Learn DSA">>,
                                           !.milestones = NotArray,
                                           !.dailyTasks = NotArray,
                                           !.schedule = Array(<<NumberItem>>)] ]

DocNames ==
  {"empty", "sched", "schedBare", "schedNone", "schedString", "schedNull",
   "schedNumber", "plan", "planBare", "planNoSchedule", "planNoTitle",
   "planNullMilestone", "planNumberItem"}

ProseTokens == {"w", "{", "}"}
ProseTexts == UNION {[1..n -> ProseTokens] : n \in 0..MaxProseLen}
\* a JSON object alone, between markdown fences, between two runs of prose,
\* after a stray opening brace, before a stray closing brace
Wrapped(d) ==
  {<<d>>, <<"fence", d, "fence">>, <<"w", d, "w">>, <<"{", d>>, <<d, "}">>}
Texts == ProseTexts \cup UNION {Wrapped(d) : d \in DocNames}

IsOpen(tok) == tok = "{" \/ tok \in DocNames
IsClose(tok) == tok = "}" \/ tok \in DocNames

\* cleaned.match(/\{[\s\S]*\}/): from the first "{" to the last "}" of the
\* text; <<>> stands for null (no match)
jsonMatch(text) ==
  LET opens == {i \in 1..Len(text) : IsOpen(text[i])}
      closes == {j \in 1..Len(text) : IsClose(text[j])}
  IN IF opens = {} \/ closes = {} THEN <<>>
     ELSE LET i == CHOOSE a \in opens : \A b \in opens : a <= b
              j == CHOOSE a \in closes : \A b \in closes : a >= b
          IN IF i < j \/ (i = j /\ text[i] \in DocNames)
             THEN SubSeq(text, i, j) ELSE <<>>

\* JSON.parse of a matched span: the span is one JSON object, or "{}" (with
\* nothing but white space between the braces); anything else is a SyntaxError
JSONparse(span) ==
  IF Len(span) = 1 /\ span[1] \in DocNames THEN Normal(DocTable[span[1]])
  ELSE IF span = <<"{", "}">> THEN Normal(EmptyObject)
  ELSE Throw("SyntaxError")

(***************************************************************************)
(* Fallback generators                                                     *)
(***************************************************************************)
generateFallbackScheduleResponse ==
  [schedule |-> <<
     ScheduleItem(<<"Morning Planning">>, "work", <<9, 0>>, <<9, 30>>, NoDate),
     ScheduleItem(<<"Focus Work Session">>, "work", <<9, 30>>, <<11, 30>>, NoDate),
     ScheduleItem(<<"Health Break">>, "health", <<12, 0>>, <<12, 30>>, NoDate),
     ScheduleItem(<<"Learning Time">>, "learning", <<18, 0>>, <<19, 0>>, NoDate),
     ScheduleItem(<<"Personal Time">>, "leisure", <<20, 0>>, <<21, 0>>, NoDate) >>,
   balanceAnalysis |-> defaultBalanceAnalysis,
   suggestions |-> Array(<<
       "Maintain consistent daily routines for better productivity",
       "Take regular breaks to avoid burnout",
       "Schedule social activities to maintain relationships">>)]

\* a string as the parsers of timeframe and study hours see it: a sequence of
\* lower-cased words, [word |-> "num", n |-> k] being a run of digits
Num(k) == [word |-> "num", n |-> k]
Word(w) == [word |-> w, n |-> 0]

Includes(str, w) == \E i \in 1..Len(str) : str[i].word = w

\* parseInt(str.match(/\d+/)?.[0] || dflt)
FirstNumber(str, dflt) ==
  LET nums == {i \in 1..Len(str) : str[i].word = "num"}
  IN IF nums = {} THEN dflt
     ELSE str[CHOOSE a \in nums : \A b \in nums : a <= b].n

parseTimeframeToDays_weeksAsDays(timeframe) ==
  IF Includes(timeframe, "week") THEN FirstNumber(timeframe, 4)
  ELSE IF Includes(timeframe, "month") THEN FirstNumber(timeframe, 1) * 30
  ELSE IF Includes(timeframe, "day") THEN FirstNumber(timeframe, 30)
  ELSE 30
parseTimeframeToDays(timeframe) ==
  IF Includes(timeframe, "week") THEN FirstNumber(timeframe, 4) * 7
  ELSE IF Includes(timeframe, "month") THEN FirstNumber(timeframe, 1) * 30
  ELSE IF Includes(timeframe, "day") THEN FirstNumber(timeframe, 30)
  ELSE 30

parseStudyHours(studyHours) == Min(Max(FirstNumber(studyHours, 2), 1), 8)

\* request.preferences?.studyHours ? this.parseStudyHours(...) : 2
StudyHoursOf(req) ==
  IF req.preferences = Undefined THEN 2
  ELSE IF req.preferences.studyHours = <<>> THEN 2
  ELSE parseStudyHours(req.preferences.studyHours)

addDays(date, days) == date + days

addMinutesToTime(time, minutes) ==
  LET totalMinutes == time[1] * 60 + time[2] + minutes
  IN <<totalMinutes \div 60, totalMinutes % 60>>

RECURSIVE FallbackDays(_, _, _, _)
FallbackDays(day, last, startDate, studyHours) ==
  IF day >= last THEN <<>>
  ELSE << WithResources(
            ScheduleItem(<<"Study Session - Day", day + 1>>, "learning", <<9, 0>>,
                         addMinutesToTime(<<9, 0>>, studyHours * 30),
                         addDays(startDate, day)),
            <<"Study Materials">>),
          WithResources(
            ScheduleItem(<<"Practice Session - Day", day + 1>>, "practice",
                         addMinutesToTime(<<9, 0>>, studyHours * 30 + 30),
                         addMinutesToTime(<<9, 0>>, studyHours * 60 + 30),
                         addDays(startDate, day)),
            <<"Practice Platform">>) >>
       \o FallbackDays(day + 1, last, startDate, studyHours)

\* reading request.preferences of an undefined request is a TypeError
generateFallbackSchedule(startDate, timeframeDays, req) ==
  IF req = Undefined THEN Throw("TypeError")
  ELSE Normal(Only({ FallbackDays(0, last, startDate, h) :
                     last \in {Min(timeframeDays, 14)}, h \in {StudyHoursOf(req)} }))

extractSkillFromGoal(goalDescription) ==
  IF goalDescription = "learn dsa" THEN "Data Structures & Algorithms"
  ELSE "Technical Skills"

today == 0

\* the plan built around the completion of generateFallbackSchedule
FallbackGoalPlanAround(req, schedule, timeframeDays) ==
  IF schedule.threw THEN schedule
  ELSE Normal(
    [goalTitle |-> <<"Master", extractSkillFromGoal(req.goalDescription)>>,
     timeframe |-> req.timeframe,
     milestones |-> Array(<<Milestone(1, addDays(today, 7)),
                            Milestone(2, addDays(today, 14)),
                            Milestone(3, addDays(today, 21)),
                            Milestone(4, addDays(today, 28))>>),
     dailyTasks |-> Array(<<"Daily Problem Solving", "Concept Review",
                            "Progress Tracking">>),
     schedule |-> Array(schedule.value),
     analysis |-> [feasibilityScore |-> 75, estimatedSuccessRate |-> 70],
     trackingMetrics |-> Array(<<
        [name |-> "Problems Solved", target |-> timeframeDays * 3],
        [name |-> "Study Hours", target |-> timeframeDays * 2],
        [name |-> "Concepts Mastered", target |-> (timeframeDays \div 7) * 3] >>),
     balanceAnalysis |-> Undefined,
     suggestions |-> Missing])

generateFallbackGoalPlan_oneArgument(req) ==
  Only({ FallbackGoalPlanAround(req, s, d) :
         s \in {generateFallbackSchedule(req, Undefined, Undefined)},
         d \in {parseTimeframeToDays(req.timeframe)} })
generateFallbackGoalPlan(req) ==
  Only({ FallbackGoalPlanAround(req, generateFallbackSchedule(today, d, req), d) :
         d \in {parseTimeframeToDays(req.timeframe)} })

(***************************************************************************)
(* Response parsers                                                        *)
(***************************************************************************)
\* what the body of a try block yields when control falls out of its ifs
FellThrough == Normal(Undefined)

HasAllFour_noEndTime(item) ==
  /\ item.title # <<>> /\ item.category # ""
  /\ item.startTime # <<>>
HasAllFour(item) ==
  /\ item.title # <<>> /\ item.category # ""
  /\ item.startTime # <<>> /\ item.endTime # <<>>

\* jsonMatch and JSON.parse(jsonMatch[0]): the parsed object, the SyntaxError
\* thrown, or FellThrough when nothing matched
ParseMatch(text) ==
  Only({ IF m = <<>> THEN FellThrough ELSE JSONparse(m) : m \in {jsonMatch(text)} })

\* the rest of the try block of parseScheduleResponse, p being ParseMatch's
\* completion; reading item.title of null throws
ScheduleFrom(p) ==
  IF p.threw \/ p = FellThrough THEN p
  ELSE IF p.value.schedule.kind # "array" THEN FellThrough
  ELSE IF \E i \in 1..Len(p.value.schedule.items) :
            p.value.schedule.items[i].type = "null"
  THEN Throw("TypeError")
  ELSE Normal(
    [schedule |-> SelectSeq(p.value.schedule.items, HasAllFour),
     balanceAnalysis |->
       IF p.value.balanceAnalysis = Undefined THEN defaultBalanceAnalysis
       ELSE p.value.balanceAnalysis,
     suggestions |->
       IF p.value.suggestions.kind = "missing" THEN Array(<<>>)
       ELSE p.value.suggestions])

ScheduleTry(text) == Only({ ScheduleFrom(p) : p \in {ParseMatch(text)} })

parseScheduleResponse_noCatch(response) ==
  Only({ IF t = FellThrough THEN Normal(generateFallbackScheduleResponse) ELSE t :
         t \in {ScheduleTry(response)} })
parseScheduleResponse(response) ==
  Only({ IF t.threw \/ t = FellThrough
         THEN Normal(generateFallbackScheduleResponse) ELSE t :
         t \in {ScheduleTry(response)} })

\* parsed.milestones.map(...): every dueDate becomes startDate plus
\* (milestone.week || index + 1) * 7 days, startDate = new Date() being today
MapMilestones(ms) ==
  [i \in 1..Len(ms) |->
     [ms[i] EXCEPT !.dueDate =
        addDays(today, (IF ms[i].week # 0 THEN ms[i].week ELSE i) * 7)]]

\* parsed.schedule.map(...): a placeholder date becomes startDate plus index
MapSchedule(sc) ==
  [i \in 1..Len(sc) |->
     [sc[i] EXCEPT !.type = "object",
                   !.date = IF sc[i].date = Placeholder
                            THEN addDays(today, i - 1) ELSE sc[i].date]]

\* the rest of the try block of parseGoalPlanResponse, p being ParseMatch's
\* completion; .map of something that is no array, or a property of null,
\* throws
GoalPlanFrom(p) ==
  IF p.threw \/ p = FellThrough THEN p
  ELSE IF ~ (/\ p.value.goalTitle # <<>>
             /\ p.value.milestones.kind # "missing"
             /\ p.value.dailyTasks.kind # "missing")
  THEN FellThrough
  ELSE IF \/ p.value.milestones.kind # "array"
          \/ \E i \in 1..Len(p.value.milestones.items) :
               p.value.milestones.items[i].type = "null"
          \/ p.value.schedule.kind # "array"
          \/ \E i \in 1..Len(p.value.schedule.items) :
               p.value.schedule.items[i].type = "null"
  THEN Throw("TypeError")
  ELSE Normal([p.value EXCEPT
                 !.milestones = Array(MapMilestones(p.value.milestones.items)),
                 !.schedule = Array(MapSchedule(p.value.schedule.items))])

GoalPlanTry(text) == Only({ GoalPlanFrom(p) : p \in {ParseMatch(text)} })

parseGoalPlanResponse_noCatch(response, req) ==
  Only({ IF t = FellThrough THEN generateFallbackGoalPlan(req) ELSE t :
         t \in {GoalPlanTry(response)} })
parseGoalPlanResponse(response, req) ==
  Only({ IF t.threw \/ t = FellThrough THEN generateFallbackGoalPlan(req) ELSE t :
         t \in {GoalPlanTry(response)} })

(***************************************************************************)
(* Persistence of generated schedules and plans                            *)
(*                                                                         *)
(* dbFail names the db.insert call that rejects, 0 when none does.         *)
(***************************************************************************)
Batch(table, rows) == [table |-> table, rows |-> rows]

\* the batches saveScheduleToDatabase adds; its catch swallows a rejection
saveScheduleToDatabase_perItem(schedule, dbFail) ==
  IF dbFail = 1 THEN <<>>
  ELSE [i \in 1..Len(schedule) |-> Batch("events", << schedule[i] >>)]
saveScheduleToDatabase(schedule, dbFail) ==
  IF dbFail = 1 THEN <<>> ELSE << Batch("events", schedule) >>

\* the batches saveGoalPlanToDatabase adds: the goal, the milestones, the
\* events; item.resources.join of an item without resources is a TypeError,
\* and its catch swallows every error
saveGoalPlanToDatabase(plan, dbFail) ==
  LET goal == << Batch("goals", << plan.goalTitle >>) >>
      ms == plan.milestones.items
      sc == plan.schedule.items
      subGoals == IF Len(ms) > 0 THEN << Batch("goals", ms) >> ELSE <<>>
  IN IF dbFail = 1 THEN <<>>
     ELSE IF Len(ms) > 0 /\ dbFail = 2 THEN goal
     ELSE IF Len(sc) = 0 THEN goal \o subGoals
     ELSE IF \E i \in 1..Len(sc) : sc[i].resources.kind # "array"
          THEN goal \o subGoals
     ELSE IF dbFail = 3 THEN goal \o subGoals
     ELSE goal \o subGoals \o << Batch("events", sc) >>

(***************************************************************************)
(* Chat replies                                                            *)
(*                                                                         *)
(* A chat text is a sequence of tokens: "sp" a run of blanks, "nl" one     *)
(* newline, one of the four prefixes, or "hi", any other text.             *)
(***************************************************************************)
prefixesToRemove == <<"FlowTrack AI:", "AI:", "Assistant:", "Bot:">>

responses ==
  << <<"I'm here to help you achieve better work-life balance.">>,
     <<"Let's work together to optimize your schedule.">>,
     <<"Building sustainable habits is key to long-term success.">>,
     <<"I can help you create a balanced schedule that works for your lifestyle.">>,
     <<"Great question! Focus on small, consistent improvements.">> >>

\* responses[Math.floor(Math.random() * responses.length)], r the draw
generateFallbackChatResponse(r) == responses[r]

IsWhite(tok) == tok \in {"sp", "nl"}

RECURSIVE trim(_)
trim(str) ==
  IF str = <<>> THEN <<>>
  ELSE IF IsWhite(Head(str)) THEN trim(Tail(str))
  ELSE IF IsWhite(str[Len(str)]) THEN trim(SubSeq(str, 1, Len(str) - 1))
  ELSE str

RECURSIVE RemovePrefixes(_, _)
RemovePrefixes(i, cleaned) ==
  IF i > Len(prefixesToRemove) THEN cleaned
  ELSE IF cleaned # <<>> /\ Head(cleaned) = prefixesToRemove[i]
       THEN RemovePrefixes(i + 1, trim(Tail(cleaned)))
       ELSE RemovePrefixes(i + 1, cleaned)

RECURSIVE NewlineRun(_)
NewlineRun(str) ==
  IF str # <<>> /\ Head(str) = "nl" THEN 1 + NewlineRun(Tail(str)) ELSE 0

\* cleaned.replace(/\n{3,}/g, '\n\n')
RECURSIVE CollapseNewlines(_)
CollapseNewlines(str) ==
  IF str = <<>> THEN <<>>
  ELSE LET r == NewlineRun(str)
       IN IF r >= 3
          THEN <<"nl", "nl">> \o CollapseNewlines(SubSeq(str, r + 1, Len(str)))
          ELSE IF r > 0
          THEN SubSeq(str, 1, r) \o CollapseNewlines(SubSeq(str, r + 1, Len(str)))
          ELSE << Head(str) >> \o CollapseNewlines(Tail(str))

cleanChatResponse_noFallback(response, r) ==
  CollapseNewlines(RemovePrefixes(1, trim(response)))
cleanChatResponse(response, r) ==
  LET cleaned == CollapseNewlines(RemovePrefixes(1, trim(response)))
  IN IF cleaned = <<>> THEN generateFallbackChatResponse(r) ELSE cleaned

(***************************************************************************)
(* Spec: one invocation of an AIService entry point                        *)
(***************************************************************************)
maxRetries_offByOne == 3 + 1
maxRetries == 3
baseDelay == 1000

RECURSIVE Pow2(_)
Pow2(n) == IF n = 0 THEN 1 ELSE 2 * Pow2(n - 1)

\* const delay = this.baseDelay * Math.pow(2, attempt)
BackoffDelay_constant(k) == baseDelay
BackoffDelay(k) == baseDelay * Pow2(k)

\* the bodies posted to /ai/generate-schedule
ScheduleRequests ==
  {[kind |-> "schedule", goals |-> g, userId |-> 1] : g \in {"", "get fit", "learn dsa"}}

\* goals: z.string().min(1, "Goals are required")
generateScheduleSchema(body) == body.goals # ""

TimeframeNumbers == 0..MaxNum \cup {10}
TimeframeUnits == {Word("week"), Word("month"), Word("day")}
TimeframeWords == {Num(k) : k \in TimeframeNumbers} \cup TimeframeUnits
\* "2 weeks", "month", "" and the like
Timeframes ==
  {<<>>} \cup {<<w>> : w \in TimeframeWords}
         \cup {<<Num(k), w>> : k \in TimeframeNumbers, w \in TimeframeUnits}
Preferences ==
  {Undefined, [studyHours |-> <<Num(9), Word("hours")>>]}
PlanRequests ==
  {[kind |-> "plan", goalDescription |-> g, userId |-> 1,
    timeframe |-> tf, preferences |-> p] :
     g \in {"", "learn dsa"}, tf \in Timeframes, p \in Preferences}

ChatTokens == {"sp", "nl", "hi"} \cup {prefixesToRemove[i] : i \in 1..Len(prefixesToRemove)}
ChatTexts == UNION {[1..n -> ChatTokens] : n \in 0..MaxChatLen}
ChatRequests == {[kind |-> "chat", message |-> "how do I focus?", userId |-> 1]}
Draws == 1..Len(responses)

NotAnalysed == [score |-> 0 - 1, suggestions |-> <<>>,
                categoryBreakdown |-> [c \in CategorySet |-> 0]]

AIIdle ==
  /\ op = "none" /\ request = Undefined /\ pc = "idle" /\ attempt = 0
  /\ outcomes = <<>> /\ delays = <<>> /\ lastText = <<>>
  /\ result = Undefined /\ inserted = <<>>

BalanceIdle == dayEvents = <<>> /\ analysis = NotAnalysed
StreakIdle == streaks = <<>> /\ clock = 0
NotFetched == [fetched |-> FALSE]
ChatIdle == chatMessages = <<>> /\ history = NotFetched
ToggleIdle == isCompleted = FALSE /\ toggles = <<>>
SocketIdle ==
  /\ sockets = <<>> /\ ws = 0 /\ isConnecting = FALSE /\ token = ""
  /\ reconnectAttempts = 0 /\ timers = 0 /\ disconnected = FALSE
RoutesIdle == StreakIdle /\ ChatIdle /\ ToggleIdle /\ SocketIdle

Init ==
  /\ AIIdle
  /\ BalanceIdle
  /\ RoutesIdle

Call(name, req, first) ==
  /\ pc = "idle"
  /\ op' = name /\ request' = req /\ pc' = first
  /\ UNCHANGED <<attempt, outcomes, delays, lastText, result, inserted,
                 dayEvents, analysis, routeVars>>

\* POST /ai/generate-schedule with a body the schema accepts
CallGenerateSchedule ==
  \E req \in ScheduleRequests :
    generateScheduleSchema(req) /\ Call("generateSchedule", req, "model")

\* POST /ai/generate-schedule with a body the schema refuses: the ZodError is
\* answered with status 400 and generateSchedule is not called
RejectGenerateSchedule ==
  \E req \in ScheduleRequests :
    ~ generateScheduleSchema(req) /\ Call("POST /ai/generate-schedule", req, "rejected")

CallCreateGoalBasedPlan == \E req \in PlanRequests : Call("createGoalBasedPlan", req, "model")
CallGenerateChatResponse == \E req \in ChatRequests : Call("generateChatResponse", req, "lookup")

\* the catch block of the retry loop, and what follows the loop when this
\* was the last attempt: final is the completion of the statement after it
Catch(final) ==
  /\ delays' = IF attempt < maxRetries - 1
               THEN Append(delays, BackoffDelay(attempt)) ELSE delays
  /\ attempt' = attempt + 1
  /\ IF attempt + 1 < maxRetries
     THEN pc' = "model" /\ result' = result
     ELSE \E f \in {final} :
            /\ pc' = IF f.threw THEN "threw" ELSE "returned"
            /\ result' = f.value

\* return this.generateFallbackSchedule(request): the method of that name
\* takes (startDate, timeframeDays, request)
ScheduleExhausted == generateFallbackSchedule(request, Undefined, Undefined)

ScheduleModelFails ==
  /\ op = "generateSchedule" /\ pc = "model"
  /\ outcomes' = Append(outcomes, "fail")
  /\ Catch(ScheduleExhausted)
  /\ UNCHANGED <<op, request, lastText, inserted, dayEvents, analysis, routeVars>>

ScheduleModelAnswers ==
  /\ op = "generateSchedule" /\ pc = "model"
  /\ \E text \in Texts :
       /\ outcomes' = Append(outcomes, "ok")
       /\ lastText' = text
       /\ \E r \in {parseScheduleResponse(text)}, dbFail \in 0..1 :
             IF r.threw
             THEN Catch(ScheduleExhausted) /\ inserted' = inserted
             ELSE /\ inserted' = IF Len(r.value.schedule) > 0
                                 THEN inserted \o saveScheduleToDatabase(r.value.schedule, dbFail)
                                 ELSE inserted
                  /\ pc' = "returned" /\ result' = r.value
                  /\ UNCHANGED <<attempt, delays>>
       /\ UNCHANGED <<op, request, dayEvents, analysis, routeVars>>

PlanModelFails ==
  /\ op = "createGoalBasedPlan" /\ pc = "model"
  /\ outcomes' = Append(outcomes, "fail")
  /\ Catch(generateFallbackGoalPlan(request))
  /\ UNCHANGED <<op, request, lastText, inserted, dayEvents, analysis, routeVars>>

PlanModelAnswers ==
  /\ op = "createGoalBasedPlan" /\ pc = "model"
  /\ \E text \in Texts :
       /\ outcomes' = Append(outcomes, "ok")
       /\ lastText' = text
       /\ \E r \in {parseGoalPlanResponse(text, request)}, dbFail \in 0..3 :
             IF r.threw
             THEN Catch(generateFallbackGoalPlan(request)) /\ inserted' = inserted
             ELSE /\ inserted' = inserted \o saveGoalPlanToDatabase(r.value, dbFail)
                  /\ pc' = "returned" /\ result' = r.value
                  /\ UNCHANGED <<attempt, delays>>
       /\ UNCHANGED <<op, request, dayEvents, analysis, routeVars>>

\* db.query.goals.findMany rejects: the catch answers with a fallback reply
ChatGoalLookupFails ==
  /\ op = "generateChatResponse" /\ pc = "lookup"
  /\ \E r \in Draws :
       /\ pc' = "returned" /\ result' = generateFallbackChatResponse(r)
       /\ UNCHANGED <<op, request, attempt, outcomes, delays, lastText, inserted,
                      dayEvents, analysis, routeVars>>

ChatGoalLookupDone ==
  /\ op = "generateChatResponse" /\ pc = "lookup"
  /\ pc' = "model"
  /\ UNCHANGED <<op, request, attempt, outcomes, delays, lastText, result, inserted,
                 dayEvents, analysis, routeVars>>

ChatModelFails ==
  /\ op = "generateChatResponse" /\ pc = "model"
  /\ \E r \in Draws :
       /\ outcomes' = Append(outcomes, "fail")
       /\ pc' = "returned" /\ result' = generateFallbackChatResponse(r)
       /\ UNCHANGED <<op, request, attempt, delays, lastText, inserted,
                      dayEvents, analysis, routeVars>>

ChatModelAnswers ==
  /\ op = "generateChatResponse" /\ pc = "model"
  /\ \E text \in ChatTexts, r \in Draws :
       /\ outcomes' = Append(outcomes, "ok")
       /\ lastText' = text
       /\ pc' = "returned" /\ result' = cleanChatResponse(text, r)
       /\ UNCHANGED <<op, request, attempt, delays, inserted, dayEvents, analysis, routeVars>>

Next ==
  \/ CallGenerateSchedule
  \/ RejectGenerateSchedule
  \/ CallCreateGoalBasedPlan
  \/ CallGenerateChatResponse
  \/ ScheduleModelFails
  \/ ScheduleModelAnswers
  \/ PlanModelFails
  \/ PlanModelAnswers
  \/ ChatGoalLookupFails
  \/ ChatGoalLookupDone
  \/ ChatModelFails
  \/ ChatModelAnswers

Spec == Init /\ [][Next]_vars

(***************************************************************************)
(* SpecBalance: the scorer applied to a day's events                       *)
(***************************************************************************)
\* events.category is a free varchar: "practice" is what saveGoalPlanToDatabase
\* stores for a practice session
EventCategories == CategorySet \cup {"practice"}
Durations == {30 * i : i \in 0..(MaxDurUnits - 1)} \cup {8 * 60}
EventKinds == [category : EventCategories, duration : Durations]
Event(category, duration) == [category |-> category, duration |-> duration]
\* a day in the optimal proportions, and a day whose work share is 15 points
\* above the optimal one
OptimalDay == << Event("work", 240), Event("health", 150), Event("leisure", 120),
                 Event("social", 60), Event("learning", 30) >>
ThresholdDay == << Event("work", 330), Event("health", 150), Event("leisure", 120) >>
EventLists ==
  UNION {[1..n -> EventKinds] : n \in 0..MaxEvents} \cup {OptimalDay, ThresholdDay}

InitBalance ==
  /\ AIIdle
  /\ dayEvents \in EventLists
  /\ analysis = NotAnalysed
  /\ RoutesIdle

\* analyzeBalance: result = this.calculateBalanceScore(analysisData)
AnalyzeBalance ==
  /\ analysis = NotAnalysed
  /\ analysis' = calculateBalanceScore(dayEvents)
  /\ UNCHANGED <<dayEvents, aiVars, routeVars>>

NextBalance == AnalyzeBalance

SpecBalance == InitBalance /\ [][NextBalance]_vars

(***************************************************************************)
(* SpecStreak: GET /streak and POST /streak/update on successive days      *)
(***************************************************************************)
StreakRow(currentStreak, longestStreak, lastActivityDate) ==
  [currentStreak |-> currentStreak, longestStreak |-> longestStreak,
   lastActivityDate |-> lastActivityDate]

\* midnight passes: new Date() is one calendar day later
NextDay ==
  /\ clock < MaxDay
  /\ clock' = clock + 1
  /\ UNCHANGED <<streaks, aiVars, balanceVars, chatVars, toggleVars, socketVars>>

GetStreak ==
  /\ streaks' = IF streaks = <<>> THEN << StreakRow(0, 0, clock) >> ELSE streaks
  /\ UNCHANGED <<clock, aiVars, balanceVars, chatVars, toggleVars, socketVars>>

PostStreakUpdate ==
  /\ IF streaks = <<>>
     THEN streaks' = << StreakRow(1, 1, clock) >>
     ELSE LET existingStreak == streaks[1]
              daysDiff == clock - existingStreak.lastActivityDate
          IN IF daysDiff = 0 THEN streaks' = streaks
             ELSE IF daysDiff = 1
             THEN streaks' =
                    << StreakRow(existingStreak.currentStreak + 1,
                                 Max(existingStreak.longestStreak,
                                     existingStreak.currentStreak + 1),
                                 clock) >>
             ELSE streaks' = << StreakRow(1, existingStreak.longestStreak, clock) >>
  /\ UNCHANGED <<clock, aiVars, balanceVars, chatVars, toggleVars, socketVars>>

InitStreak == Init
NextStreak == NextDay \/ GetStreak \/ PostStreakUpdate
SpecStreak == InitStreak /\ [][NextStreak]_vars

(***************************************************************************)
(* SpecChat: the routes that write and read the chatMessages table         *)
(*                                                                         *)
(* The AIService calls of the two POST routes are the subject of Spec;     *)
(* here only their completion matters.  createdAt grows with the row id.   *)
(***************************************************************************)
ChatUsers == {1, 2}
Null == 0

\* the text of scheduleMessage: "I've generated a personalized schedule..."
ScheduleSummary == "I've generated a personalized schedule for you!"

ChatRow(userId, message, messageType, relatedMessageId) ==
  [id |-> Len(chatMessages) + 1, userId |-> userId, message |-> message,
   messageType |-> messageType, relatedMessageId |-> relatedMessageId]

\* POST /chat/message: the reply of generateChatResponse, then the user message and
\* the AI response that points to it; failing names the insert that rejects
PostChat ==
  \E u \in ChatUsers, failing \in 0..2 :
    /\ Len(chatMessages) + 2 <= MaxMessages
    /\ chatMessages' =
         IF failing = 1 THEN chatMessages
         ELSE LET userMessage == ChatRow(u, "how do I focus?", "user", Null)
              IN IF failing = 2 THEN Append(chatMessages, userMessage)
                 ELSE chatMessages \o
                        << userMessage,
                           [ChatRow(u, "Take regular breaks.", "ai", userMessage.id)
                              EXCEPT !.id = userMessage.id + 1] >>
    /\ UNCHANGED <<history, aiVars, balanceVars, streakVars, toggleVars, socketVars>>

\* POST /ai/generate-schedule with a valid body: when generateSchedule
\* returned, the summary is stored as an 'ai' message and the route answers
\* with success; when it raised or the insert rejects the route answers 500
PostGenerateSchedule ==
  \E u \in ChatUsers, generated \in BOOLEAN, failing \in 0..1 :
    /\ Len(chatMessages) + 1 <= MaxMessages
    /\ chatMessages' =
         IF generated /\ failing = 0
         THEN Append(chatMessages, ChatRow(u, ScheduleSummary, "ai", Null))
         ELSE chatMessages
    /\ UNCHANGED <<history, aiVars, balanceVars, streakVars, toggleVars, socketVars>>

historyLimit == 100

\* the conversations GET /chat/history builds from allMessages, the newest
\* historyLimit rows of the user: one per 'user' message, with the 'ai'
\* message whose relatedMessageId is its id, oldest first
Conversations(u) ==
  LET mine == SelectSeq(chatMessages, LAMBDA m : m.userId = u)
      allMessages == SubSeq(mine, Max(1, Len(mine) - historyLimit + 1), Len(mine))
      Responses(message) ==
        {k \in 1..Len(allMessages) :
           /\ allMessages[k].messageType = "ai"
           /\ allMessages[k].relatedMessageId = message.id}
      Conversation(message) ==
        [id |-> message.id, message |-> message.message,
         response |-> IF Responses(message) = {} THEN ""
                      ELSE allMessages[CHOOSE k \in Responses(message) :
                                         \A j \in Responses(message) : j <= k].message]
      users == SelectSeq(allMessages, LAMBDA m : m.messageType = "user")
  IN [k \in 1..Len(users) |-> Conversation(users[k])]

GetChatHistory ==
  \E u \in ChatUsers :
    /\ history' = [fetched |-> TRUE, userId |-> u, seen |-> Len(chatMessages),
                   conversations |-> Conversations(u)]
    /\ UNCHANGED <<chatMessages, aiVars, balanceVars, streakVars, toggleVars, socketVars>>

InitChat == Init
NextChat == PostChat \/ PostGenerateSchedule \/ GetChatHistory
SpecChat == InitChat /\ [][NextChat]_vars

(***************************************************************************)
(* SpecToggle: concurrent PATCH /events/:id/toggle-completion requests     *)
(*                                                                         *)
(* The user owns one event, created with isCompleted false; each request   *)
(* is a handler whose two awaited database calls are separate steps.       *)
(***************************************************************************)
TheEvent == "event 1"
EventIds == {TheEvent, "event 2"}

\* a PATCH request arrives; its handler is about to run findFirst
PatchToggleCompletion ==
  \E eventId \in EventIds :
    /\ Len(toggles) < MaxRequests
    /\ toggles' = Append(toggles, [eventId |-> eventId, at |-> "findFirst",
                                   currentEvent |-> Undefined])
    /\ UNCHANGED <<isCompleted, aiVars, balanceVars, streakVars, chatVars, socketVars>>

\* const currentEvent = await db.query.events.findFirst(...); 404 when the
\* user has no such event
FindFirst ==
  \E i \in 1..Len(toggles) :
    /\ toggles[i].at = "findFirst"
    /\ toggles' =
         IF toggles[i].eventId = TheEvent
         THEN [toggles EXCEPT ![i].at = "update",
                              ![i].currentEvent = [isCompleted |-> isCompleted]]
         ELSE [toggles EXCEPT ![i].at = "404"]
    /\ UNCHANGED <<isCompleted, aiVars, balanceVars, streakVars, chatVars, socketVars>>

\* await db.update(events).set({isCompleted: !currentEvent.isCompleted});
\* res.json(updatedEvent)
UpdateEvent ==
  \E i \in 1..Len(toggles) :
    /\ toggles[i].at = "update"
    /\ isCompleted' = ~ toggles[i].currentEvent.isCompleted
    /\ toggles' = [toggles EXCEPT ![i].at = "200"]
    /\ UNCHANGED <<aiVars, balanceVars, streakVars, chatVars, socketVars>>

InitToggle == Init
NextToggle == PatchToggleCompletion \/ FindFirst \/ UpdateEvent
SpecToggle == InitToggle /\ [][NextToggle]_vars

(***************************************************************************)
(* SpecSocket: the client WebSocketService                                  *)
(*                                                                         *)
(* Every socket the service created stays in sockets with its readyState;  *)
(* its handlers are closures over the service, so they run for a socket    *)
(* that is no longer this.ws as well.                                      *)
(***************************************************************************)
maxReconnectAttempts == 5

Live(socket) == socket.readyState \in {"connecting", "open"}

\* ws.close() on the socket at index i
Close(all, i) ==
  IF Live(all[i]) THEN [all EXCEPT ![i].readyState = "closing"] ELSE all

\* connect(), called by creator with the fields at the values given:
\* the new list of sockets, this.ws and this.isConnecting
Connect(all, current, connecting, tok, creator) ==
  IF connecting \/ tok = ""
  THEN /\ sockets' = all /\ ws' = current /\ isConnecting' = connecting
  ELSE /\ Len(all) < MaxSockets
       /\ sockets' = Append(all, [readyState |-> "connecting", by |-> creator,
                                  afterDisconnect |-> disconnected /\ creator = "timer"])
       /\ ws' = Len(all) + 1
       /\ isConnecting' = TRUE

SetToken ==
  \E t \in {"", "jwt"} :
    /\ token' = t
    /\ disconnected' = FALSE
    /\ IF ws # 0
       THEN Connect(Close(sockets, ws), 0, FALSE, t, "setToken")
       ELSE Connect(sockets, ws, isConnecting, t, "setToken")
    /\ UNCHANGED <<reconnectAttempts, timers,
                   aiVars, balanceVars, streakVars, chatVars, toggleVars>>

Disconnect ==
  /\ sockets' = IF ws # 0 THEN Close(sockets, ws) ELSE sockets
  /\ ws' = 0
  /\ isConnecting' = FALSE
  /\ disconnected' = TRUE
  /\ UNCHANGED <<token, reconnectAttempts, timers,
                 aiVars, balanceVars, streakVars, chatVars, toggleVars>>

\* the open event of a socket: its onopen runs
SocketOpens ==
  \E i \in 1..Len(sockets) :
    /\ sockets[i].readyState = "connecting"
    /\ sockets' = [sockets EXCEPT ![i].readyState = "open"]
    /\ reconnectAttempts' = 0
    /\ isConnecting' = FALSE
    /\ UNCHANGED <<ws, token, timers, disconnected,
                   aiVars, balanceVars, streakVars, chatVars, toggleVars>>

\* the error event of a socket: its onerror runs, the close event follows
SocketErrors ==
  \E i \in 1..Len(sockets) :
    /\ Live(sockets[i])
    /\ sockets' = [sockets EXCEPT ![i].readyState = "closing"]
    /\ isConnecting' = FALSE
    /\ UNCHANGED <<ws, token, reconnectAttempts, timers, disconnected,
                   aiVars, balanceVars, streakVars, chatVars, toggleVars>>

\* the close event of a socket, closed by the service, the server or after
\* an error: its onclose runs, and with it handleReconnect
SocketCloses ==
  \E i \in 1..Len(sockets) :
    /\ sockets[i].readyState \in {"open", "closing"}
    /\ sockets' = [sockets EXCEPT ![i].readyState = "closed"]
    /\ isConnecting' = FALSE
    /\ IF reconnectAttempts < maxReconnectAttempts /\ token # ""
       THEN reconnectAttempts' = reconnectAttempts + 1 /\ timers' = timers + 1
       ELSE UNCHANGED <<reconnectAttempts, timers>>
    /\ UNCHANGED <<ws, token, disconnected,
                   aiVars, balanceVars, streakVars, chatVars, toggleVars>>

\* a timer set by handleReconnect fires: connect()
ReconnectTimerFires ==
  /\ timers > 0
  /\ timers' = timers - 1
  /\ Connect(sockets, ws, isConnecting, token, "timer")
  /\ UNCHANGED <<token, reconnectAttempts, disconnected,
                 aiVars, balanceVars, streakVars, chatVars, toggleVars>>

InitSocket == Init
NextSocket ==
  \/ SetToken
  \/ Disconnect
  \/ SocketOpens
  \/ SocketErrors
  \/ SocketCloses
  \/ ReconnectTimerFires
SpecSocket == InitSocket /\ [][NextSocket]_vars

(***************************************************************************)
(* Properties                                                              *)
(***************************************************************************)
Terminal == pc \in {"returned", "threw"}
RetryOps == {"generateSchedule", "createGoalBasedPlan"}
NumFailures == Cardinality({i \in 1..Len(outcomes) : outcomes[i] = "fail"})
AllAttemptsFailed == outcomes = <<"fail", "fail", "fail">>
LastCallAnswered == outcomes # <<>> /\ outcomes[Len(outcomes)] = "ok"

IsSchedulePlanResponse(r) ==
  /\ \A i \in 1..Len(r.schedule) : HasAllFour(r.schedule[i])
  /\ DOMAIN r.balanceAnalysis = DOMAIN defaultBalanceAnalysis
  /\ r.suggestions.kind = "array"

\* C1: when every model call fails, generateSchedule returns a valid
\* SchedulePlanResponse once its 3 attempts are used up and never raises.
C1_ExhaustedScheduleReturns ==
  (op = "generateSchedule" /\ Terminal /\ AllAttemptsFailed)
    => (pc = "returned" /\ IsSchedulePlanResponse(result))

\* C2: generateSchedule and createGoalBasedPlan call the model at most 3
\* times; every call but the last one made has failed, and a call that
\* succeeded ends the invocation.
C2_AtMostThreeCalls ==
  op \in RetryOps =>
    /\ Len(outcomes) <= 3
    /\ \A i \in 1..(Len(outcomes) - 1) : outcomes[i] = "fail"
    /\ LastCallAnswered => Terminal

W_C2_ThirdCallAnswers ==
  op \in RetryOps /\ outcomes = <<"fail", "fail", "ok">> /\ pc = "returned"

\* C3 as stated: every failed attempt is followed by a backoff delay, the
\* delays being 1000, 2000, 4000 ms in that order.
C3_EveryFailureBacksOff ==
  op \in RetryOps =>
    /\ Len(delays) = NumFailures
    /\ \A i \in 1..Len(delays) : delays[i] = <<1000, 2000, 4000>>[i]

\* C3 amended: every failed attempt but the third is followed by a backoff
\* delay, 1000 ms after the first and 2000 ms after the second; no delay
\* follows the third failure.
C3_BackoffBetweenAttempts ==
  op \in RetryOps =>
    /\ Len(delays) = Min(NumFailures, 2)
    /\ \A i \in 1..Len(delays) : delays[i] = <<1000, 2000>>[i]

W_C3_ThreeFailuresTwoDelays ==
  op = "createGoalBasedPlan" /\ AllAttemptsFailed /\ delays = <<1000, 2000>>

IsGoalPlan(r) ==
  /\ r.goalTitle # <<>>
  /\ r.milestones.kind = "array"
  /\ r.dailyTasks.kind # "missing"
  /\ r.schedule.kind = "array"

IsFallbackGoalPlan(r) ==
  /\ r.goalTitle[1] = "Master"
  /\ Len(r.milestones.items) = 4
  /\ Len(r.dailyTasks.items) = 3
  /\ r.analysis = [feasibilityScore |-> 75, estimatedSuccessRate |-> 70]

\* C4: createGoalBasedPlan never raises: whatever the model calls do, it
\* returns a plan that is either the fallback plan or the plan parsed from
\* the text of the call that answered, and the fallback plan when all 3
\* attempts failed.
C4_PlanAlwaysReturns ==
  (op = "createGoalBasedPlan" /\ Terminal) =>
    /\ pc = "returned"
    /\ IsGoalPlan(result)
    /\ \/ IsFallbackGoalPlan(result)
       \/ /\ LastCallAnswered
          /\ \E i \in 1..Len(lastText) :
               /\ lastText[i] \in DocNames
               /\ result.goalTitle = DocTable[lastText[i]].goalTitle
               /\ result.dailyTasks = DocTable[lastText[i]].dailyTasks
    /\ AllAttemptsFailed => IsFallbackGoalPlan(result)

W_C4_FallbackAfterThreeFailures ==
  /\ op = "createGoalBasedPlan" /\ pc = "returned" /\ AllAttemptsFailed
  /\ IsFallbackGoalPlan(result)
  /\ Len(result.schedule.items) = 28

NoBraces(text) == \A i \in 1..Len(text) : text[i] \in {"w", "fence"}

\* C5: when the model answers with prose that has no braces, the plan
\* createGoalBasedPlan returns has milestones, dailyTasks, schedule,
\* analysis and trackingMetrics all non-empty, for any timeframe.
C5_ProseFallbackNonEmpty ==
  (/\ op = "createGoalBasedPlan" /\ pc = "returned"
   /\ LastCallAnswered /\ NoBraces(lastText)) =>
    /\ Len(result.milestones.items) > 0
    /\ Len(result.dailyTasks.items) > 0
    /\ Len(result.schedule.items) > 0
    /\ result.analysis # Undefined
    /\ Len(result.trackingMetrics.items) > 0

NoJsonObject(text) == jsonMatch(text) = <<>>
InvalidJson(text) == ~ NoJsonObject(text) /\ JSONparse(jsonMatch(text)).threw
ParsedSchedule(text) == JSONparse(jsonMatch(text)).value.schedule
ScheduleNotArray(text) ==
  /\ ~ NoJsonObject(text) /\ ~ InvalidJson(text)
  /\ ParsedSchedule(text).kind # "array"
HasItemOfType(text, types) ==
  /\ ~ NoJsonObject(text) /\ ~ InvalidJson(text)
  /\ \E i \in 1..Len(ParsedSchedule(text).items) :
       ParsedSchedule(text).items[i].type \in types

\* C6 as stated: a response with no JSON object, invalid JSON, a schedule
\* that is missing or not an array, or an array holding a non-object item
\* makes generateSchedule return the fixed fallback response.
C6_MalformedGivesFallback ==
  (/\ op = "generateSchedule" /\ LastCallAnswered
   /\ \/ NoJsonObject(lastText) \/ InvalidJson(lastText)
      \/ ScheduleNotArray(lastText)
      \/ HasItemOfType(lastText, {"null", "number"})) =>
    (pc = "returned" /\ result = generateFallbackScheduleResponse)

\* C6 amended: a response with no JSON object, invalid JSON, a schedule
\* that is missing or not an array, or an array holding a null item makes
\* generateSchedule return the fixed fallback response; an item that is a
\* number, string or boolean is dropped by the item filter instead; no
\* exception escapes the parser, so the call that answered ends the
\* invocation with a returned response.
C6_MalformedOrNullGivesFallback ==
  (op = "generateSchedule" /\ LastCallAnswered) =>
    /\ pc = "returned"
    /\ (\/ NoJsonObject(lastText) \/ InvalidJson(lastText)
        \/ ScheduleNotArray(lastText)
        \/ HasItemOfType(lastText, {"null"}))
         => result = generateFallbackScheduleResponse
    /\ \A i \in 1..Len(result.schedule) : result.schedule[i].type = "object"

W_C6_InvalidJsonGivesFallback ==
  /\ op = "generateSchedule" /\ pc = "returned" /\ LastCallAnswered
  /\ InvalidJson(lastText)
  /\ result = generateFallbackScheduleResponse

FallbackReplies == {responses[i] : i \in 1..Len(responses)}
CleansToNothing(text) == CollapseNewlines(RemovePrefixes(1, trim(text))) = <<>>

\* C7: generateChatResponse calls the model at most once and always returns
\* a non-empty string: a fixed fallback reply when the goal lookup or the
\* model call failed or the cleaned text is empty.
C7_ChatAnswersOnce ==
  op = "generateChatResponse" =>
    /\ Len(outcomes) <= 1
    /\ pc # "threw"
    /\ pc = "returned" =>
         /\ result # <<>>
         /\ (~ LastCallAnswered \/ CleansToNothing(lastText))
              => result \in FallbackReplies

W_C7_EmptyCleanedText ==
  /\ op = "generateChatResponse" /\ pc = "returned" /\ LastCallAnswered
  /\ lastText = <<"sp", "AI:", "nl">>
  /\ result \in FallbackReplies

RECURSIVE SumPercentages(_, _)
SumPercentages(i, breakdown) ==
  IF i > Len(Categories) THEN 0
  ELSE breakdown[Categories[i]] + SumPercentages(i + 1, breakdown)

Recognized(e) == e.category \in CategorySet

\* C8: the score of every event list is an integer between 0 and 100
\* (in hundredths: a multiple of 100 between 0 and 10000).
C8_ScoreBounds ==
  analysis # NotAnalysed =>
    /\ analysis.score % 100 = 0
    /\ 0 <= analysis.score /\ analysis.score <= 100 * 100

W_C8_RoundedLowScore ==
  /\ analysis # NotAnalysed /\ totalTime(dayEvents) > 0
  /\ (100 * 100 - Penalty(1, analysis.categoryBreakdown)) % 100 # 0
  /\ analysis.score < 60 * 100

\* C9: for a non-empty event list the five percentages sum to 100 +- 2.
C9_PercentagesSumTo100 ==
  (analysis # NotAnalysed /\ dayEvents # <<>>) =>
    /\ 98 <= SumPercentages(1, analysis.categoryBreakdown)
    /\ SumPercentages(1, analysis.categoryBreakdown) <= 102

\* C10: breakdown and score of an event list equal those of the list
\* without its events of unrecognized category.
C10_UnrecognizedDropped ==
  analysis # NotAnalysed =>
    /\ analysis.categoryBreakdown =
         calculateBalanceScore(SelectSeq(dayEvents, Recognized)).categoryBreakdown
    /\ analysis.score = calculateBalanceScore(SelectSeq(dayEvents, Recognized)).score

ZeroTotal == analysis # NotAnalysed /\ totalTime(dayEvents) = 0

\* C11: analysing an event list that is empty or whose durations sum to 0
\* returns the canned default: score 60, the fixed breakdown 45/20/20/10/5
\* and exactly 3 canned suggestions; the call does not fail.
C11_ZeroTotalGivesDefault ==
  ZeroTotal =>
    /\ analysis.score = 60 * 100
    /\ Len(analysis.suggestions) = 3
    /\ \A i \in 1..Len(analysis.suggestions) : analysis.suggestions[i].kind = "canned"
    /\ analysis.categoryBreakdown =
         [c \in CategorySet |->
            CASE c = "work" -> 45 [] c = "health" -> 20 [] c = "leisure" -> 20
              [] c = "social" -> 10 [] c = "learning" -> 5]

W_C11_ZeroDurationEvents ==
  /\ ZeroTotal /\ Len(dayEvents) = 2
  /\ analysis.score = 60 * 100 /\ Len(analysis.suggestions) = 3

\* C12: when the total tracked minutes are 0, the breakdown returned has
\* all five categories at 0.
C12_ZeroTotalEmptyBreakdown ==
  ZeroTotal => \A c \in CategorySet : analysis.categoryBreakdown[c] = 0

EmptyGoal(req) ==
  \/ req.kind = "schedule" /\ req.goals = ""
  \/ req.kind = "plan" /\ req.goalDescription = ""

\* C13: a planning request with an empty goal description is rejected
\* before any model call, for schedule generation and for
\* createGoalBasedPlan.
C13_EmptyGoalRejected ==
  (request # Undefined /\ EmptyGoal(request)) =>
    (pc = "rejected" /\ outcomes = <<>>)

\* C14: every item of the schedule the parser returns, and every item
\* persisted, has a category among work, health, leisure, social, learning.
C14_ParsedCategoriesCanonical ==
  (op = "generateSchedule" /\ pc = "returned") =>
    /\ \A i \in 1..Len(result.schedule) : result.schedule[i].category \in CategorySet
    /\ \A b \in 1..Len(inserted) : \A i \in 1..Len(inserted[b].rows) :
         inserted[b].rows[i].category \in CategorySet

ScheduleIsArray(text) ==
  /\ ~ NoJsonObject(text) /\ ~ InvalidJson(text)
  /\ ParsedSchedule(text).kind = "array"

HasTitleCategoryStartEnd(item) ==
  /\ item.type = "object"
  /\ item.title # <<>> /\ item.category # ""
  /\ item.startTime # <<>> /\ item.endTime # <<>>

ItemsKept(text) == SelectSeq(ParsedSchedule(text).items, HasTitleCategoryStartEnd)

\* C15 as stated: when the parsed JSON has a schedule array, the parser
\* returns exactly its items that have title, category, startTime and
\* endTime, in their order, whatever else the array holds.
C15_ArrayItemsFiltered ==
  (op = "generateSchedule" /\ LastCallAnswered /\ ScheduleIsArray(lastText)) =>
    (pc = "returned" /\ result.schedule = ItemsKept(lastText))

\* C15 amended: when the parsed JSON has a schedule array with no null
\* element, the parser returns exactly its items that have title, category,
\* startTime and endTime, in their order; a null element makes the whole
\* response the fallback.
C15_NonNullArrayItemsFiltered ==
  (op = "generateSchedule" /\ LastCallAnswered /\ ScheduleIsArray(lastText)) =>
    /\ pc = "returned"
    /\ result.schedule = IF HasItemOfType(lastText, {"null"})
                         THEN generateFallbackScheduleResponse.schedule
                         ELSE ItemsKept(lastText)

W_C15_IncompleteItemDropped ==
  /\ op = "generateSchedule" /\ pc = "returned"
  /\ lastText = <<"fence", "schedBare", "fence">>
  /\ result.schedule = <<Drill, Gym>>

ValidScheduleDoc(doc) ==
  /\ doc.schedule.kind = "array"
  /\ \A i \in 1..Len(doc.schedule.items) : doc.schedule.items[i].type # "null"

ValidPlanDoc(doc) ==
  /\ doc.goalTitle # <<>>
  /\ doc.milestones.kind = "array" /\ doc.dailyTasks.kind = "array"
  /\ \A i \in 1..Len(doc.milestones.items) : doc.milestones.items[i].type # "null"
  /\ ValidScheduleDoc(doc)

\* C16: from a text holding a valid JSON object between arbitrary prose or
\* fences the parsers take that object; from a text with no JSON object they
\* yield the fallback.
C16_EmbeddedObjectExtracted ==
  (op \in RetryOps /\ LastCallAnswered) =>
    /\ \A i \in 1..Len(lastText) :
         (lastText[i] \in DocNames /\ op = "generateSchedule"
            /\ ValidScheduleDoc(DocTable[lastText[i]])) =>
           /\ pc = "returned"
           /\ result.schedule =
                SelectSeq(DocTable[lastText[i]].schedule.items, HasTitleCategoryStartEnd)
    /\ \A i \in 1..Len(lastText) :
         (lastText[i] \in DocNames /\ op = "createGoalBasedPlan"
            /\ ValidPlanDoc(DocTable[lastText[i]])) =>
           /\ pc = "returned"
           /\ result.goalTitle = DocTable[lastText[i]].goalTitle
    /\ NoJsonObject(lastText) =>
         /\ pc = "returned"
         /\ \/ result = generateFallbackScheduleResponse
            \/ op = "createGoalBasedPlan" /\ IsFallbackGoalPlan(result)

ReturnedScheduleFallback ==
  /\ op = "generateSchedule" /\ pc = "returned"
  /\ LastCallAnswered /\ NoJsonObject(lastText)

\* C17: the schedule fallback has exactly 5 activities whose categories
\* cover all five of work, health, leisure, social, learning, and a
\* balanceAnalysis of 40/25/20/10/5.
C17_FallbackCoversAllFive ==
  ReturnedScheduleFallback =>
    /\ Len(result.schedule) = 5
    /\ {result.schedule[i].category : i \in 1..Len(result.schedule)} = CategorySet
    /\ result.balanceAnalysis =
         [workPercentage |-> 40, healthPercentage |-> 25, leisurePercentage |-> 20,
          socialPercentage |-> 10, learningPercentage |-> 5]

ValidItem(item) ==
  HasTitleCategoryStartEnd(item) /\ item.category \in CategorySet

\* C18: every schedule item of the fallback SchedulePlanResponse and of the
\* fallback GoalPlan has title, startTime, endTime and one of the five
\* categories.
C18_FallbackItemsValid ==
  /\ ReturnedScheduleFallback =>
       \A i \in 1..Len(result.schedule) : ValidItem(result.schedule[i])
  /\ (op = "createGoalBasedPlan" /\ pc = "returned" /\ IsFallbackGoalPlan(result)) =>
       \A i \in 1..Len(result.schedule.items) : ValidItem(result.schedule.items[i])

EightHoursOfWork == << [category |-> "work", duration |-> 8 * 60] >>

\* C19: a day that is one 8-hour work event has breakdown work 100 and 0
\* elsewhere, score 54 (below 100), and a suggestion to reduce work.
C19_AllWorkDay ==
  (analysis # NotAnalysed /\ dayEvents = EightHoursOfWork) =>
    /\ analysis.categoryBreakdown =
         [c \in CategorySet |-> IF c = "work" THEN 100 ELSE 0]
    /\ analysis.score = 54 * 100
    /\ analysis.score < 100 * 100
    /\ \E i \in 1..Len(analysis.suggestions) :
         /\ analysis.suggestions[i].kind = "reduce"
         /\ analysis.suggestions[i].category = "work"

W_C19_AllWorkDayAnalysed ==
  /\ analysis # NotAnalysed /\ dayEvents = EightHoursOfWork
  /\ analysis.score = 54 * 100
  /\ analysis.suggestions[1] = [kind |-> "reduce", category |-> "work", pct |-> 60]

\* the days the fallback plan was built for: its "Study Hours" metric has
\* target timeframeDays * 2
FallbackPlanDays == result.trackingMetrics.items[2].target \div 2
ReturnedFallbackPlan ==
  op = "createGoalBasedPlan" /\ pc = "returned" /\ IsFallbackGoalPlan(result)
IsNumberAndUnit(tf) ==
  Len(tf) = 2 /\ tf[1].word = "num" /\ tf[2] \in TimeframeUnits
DaysPerUnit(w) ==
  CASE w = "month" -> 30 [] w = "week" -> 7 [] w = "day" -> 1

\* C20 as stated: 'N months' gives 30 N days, 'N weeks' 7 N, 'N days' N, and
\* every other string the 30-day default.
C20_TimeframeDaysOrThirty ==
  ReturnedFallbackPlan =>
    FallbackPlanDays =
      IF IsNumberAndUnit(request.timeframe)
      THEN request.timeframe[1].n * DaysPerUnit(request.timeframe[2].word)
      ELSE 30

\* C20 amended: 'N months' gives 30 N days, 'N weeks' 7 N, 'N days' N; a
\* string without digits that contains 'week' gives 28 days (4 weeks), and
\* every other string without digits or without a unit the 30-day default.
C20_TimeframeDaysOrDefault ==
  ReturnedFallbackPlan =>
    FallbackPlanDays =
      IF IsNumberAndUnit(request.timeframe)
      THEN request.timeframe[1].n * DaysPerUnit(request.timeframe[2].word)
      ELSE IF request.timeframe = << Word("week") >> THEN 28
      ELSE 30

W_C20_ThreeWeeks ==
  /\ ReturnedFallbackPlan
  /\ request.timeframe = << Num(3), Word("week") >>
  /\ FallbackPlanDays = 21

Computed == analysis # NotAnalysed /\ totalTime(dayEvents) > 0
BreakdownOf(w, h, l, s, g) ==
  [c \in CategorySet |->
     CASE c = "work" -> w [] c = "health" -> h [] c = "leisure" -> l
       [] c = "social" -> s [] c = "learning" -> g]

\* 100 (0.4 (1.0 |w - 40| + 1.2 |h - 25| + 0.8 |l - 20| + 0.6 |s - 10|
\* + 0.7 |g - 5|)), the penalty of a breakdown in hundredths
StatedPenalty(b) ==
  4 * (10 * Abs(b["work"] - 40) + 12 * Abs(b["health"] - 25)
       + 8 * Abs(b["leisure"] - 20) + 6 * Abs(b["social"] - 10)
       + 7 * Abs(b["learning"] - 5))
\* round to the nearest integer, then clamp to [0, 100]; in hundredths
RoundAndClamp(x) ==
  LET r == ((x + 50) \div 100) * 100
  IN IF r < 0 THEN 0 ELSE IF r > 100 * 100 THEN 100 * 100 ELSE r

\* C23: the score computed for a breakdown is round(100 - 0.4 * sum of
\* weight * |actual - optimal|) clamped to [0, 100]; the optimal breakdown
\* scores exactly 100.
C23_ScoreFormula ==
  Computed =>
    /\ analysis.score = RoundAndClamp(100 * 100 - StatedPenalty(analysis.categoryBreakdown))
    /\ analysis.categoryBreakdown = BreakdownOf(40, 25, 20, 10, 5)
         => analysis.score = 100 * 100

W_C23_OptimalDayScores100 ==
  /\ Computed /\ dayEvents = OptimalDay
  /\ analysis.categoryBreakdown = BreakdownOf(40, 25, 20, 10, 5)
  /\ analysis.score = 100 * 100

StatedOptimal == BreakdownOf(40, 25, 20, 10, 5)
Over(c) == analysis.categoryBreakdown[c] - StatedOptimal[c] > 15
Under(c) == StatedOptimal[c] - analysis.categoryBreakdown[c] > 15
HasDirective(kind, c) ==
  \E i \in 1..Len(analysis.suggestions) :
    analysis.suggestions[i].kind = kind /\ analysis.suggestions[i].category = c
Affirms == analysis.suggestions = << [kind |-> "affirm", category |-> "", pct |-> 0] >>
\* the categories before c in the order work, health, leisure, social,
\* learning that are more than 15 points off
EarlierOff(c) ==
  {k \in 1..Len(Categories) :
     /\ \E j \in (k + 1)..Len(Categories) : Categories[j] = c
     /\ (Over(Categories[k]) \/ Under(Categories[k]))}

\* C24 as stated: a category has a directive exactly when it is more than 15
\* points off ('reduce' above, 'increase' below), and the affirming message
\* is given exactly when no category is.
C24_DirectiveIffOverThreshold ==
  Computed =>
    /\ \A c \in CategorySet :
         /\ HasDirective("reduce", c) <=> Over(c)
         /\ HasDirective("increase", c) <=> Under(c)
    /\ Affirms <=> \A c \in CategorySet : ~ Over(c) /\ ~ Under(c)

\* C24 amended: a category has a directive exactly when it is more than 15
\* points off and fewer than three categories before it are; a deviation of
\* exactly 15 gives none; the affirming message is given exactly when no
\* category is more than 15 points off.
C24_DirectiveIffOverThresholdWithinCap ==
  Computed =>
    /\ \A c \in CategorySet :
         /\ HasDirective("reduce", c) <=> (Over(c) /\ Cardinality(EarlierOff(c)) < 3)
         /\ HasDirective("increase", c) <=> (Under(c) /\ Cardinality(EarlierOff(c)) < 3)
    /\ Affirms <=> \A c \in CategorySet : ~ Over(c) /\ ~ Under(c)

W_C24_ExactlyFifteenAffirms ==
  /\ Computed /\ dayEvents = ThresholdDay
  /\ analysis.categoryBreakdown["work"] = 55
  /\ Affirms

\* C25: a computed result has 1 to 3 suggestions; when more than 3
\* categories are off, the directives kept are those of the first 3 in the
\* order work, health, leisure, social, learning.
C25_OneToThreeSuggestions ==
  Computed =>
    /\ 1 <= Len(analysis.suggestions) /\ Len(analysis.suggestions) <= 3
    /\ \A i, j \in 1..Len(analysis.suggestions) :
         i < j => \E a, b \in 1..Len(Categories) :
                    /\ a < b
                    /\ Categories[a] = analysis.suggestions[i].category
                    /\ Categories[b] = analysis.suggestions[j].category
    /\ \A c \in CategorySet :
         ((Over(c) \/ Under(c)) /\ Cardinality(EarlierOff(c)) < 3)
           => (HasDirective("reduce", c) \/ HasDirective("increase", c))

W_C25_FourOffThreeKept ==
  /\ Computed
  /\ Cardinality({c \in CategorySet : Over(c) \/ Under(c)}) = 4
  /\ Len(analysis.suggestions) = 3
  /\ analysis.suggestions[3].category = "leisure"

ParsedPlanReturned(d) ==
  /\ op = "createGoalBasedPlan" /\ pc = "returned" /\ LastCallAnswered
  /\ \E i \in 1..Len(lastText) : lastText[i] = d
  /\ ~ IsFallbackGoalPlan(result)

\* C26: in a parsed plan a schedule item dated 'YYYY-MM-DD' gets the base
\* date plus its index and a milestone with the placeholder gets the base
\* date plus 7 times its week; every other date is the one the model gave.
C26_OnlyPlaceholdersChange ==
  \A d \in DocNames : ParsedPlanReturned(d) =>
    /\ \A i \in 1..Len(result.schedule.items) :
         result.schedule.items[i].date =
           IF DocTable[d].schedule.items[i].date = Placeholder
           THEN today + (i - 1) ELSE DocTable[d].schedule.items[i].date
    /\ \A i \in 1..Len(result.milestones.items) :
         result.milestones.items[i].dueDate =
           IF DocTable[d].milestones.items[i].dueDate = Placeholder
           THEN today + 7 * DocTable[d].milestones.items[i].week
           ELSE DocTable[d].milestones.items[i].dueDate

Unparsable(text) ==
  \/ NoJsonObject(text) \/ InvalidJson(text)
  \/ (op = "generateSchedule" /\ ~ ValidScheduleDoc(JSONparse(jsonMatch(text)).value))
  \/ (op = "createGoalBasedPlan" /\ ~ ValidPlanDoc(JSONparse(jsonMatch(text)).value))

\* C27: when a model call succeeds but its text cannot be parsed, the
\* invocation returns the fallback at once: no further model call is made
\* and no backoff delay follows; if it was the first call, it is the only
\* call and there is no delay at all.
C27_ParseFailureNotRetried ==
  (op \in RetryOps /\ LastCallAnswered /\ Unparsable(lastText)) =>
    /\ pc = "returned"
    /\ \/ result = generateFallbackScheduleResponse
       \/ op = "createGoalBasedPlan" /\ IsFallbackGoalPlan(result)
    /\ Len(delays) = Len(outcomes) - 1
    /\ outcomes[1] = "ok" => (Len(outcomes) = 1 /\ delays = <<>> /\ attempt = 0)

W_C27_FirstAnswerUnparsable ==
  /\ op = "createGoalBasedPlan" /\ pc = "returned"
  /\ outcomes = <<"ok">> /\ lastText = <<"{", "plan">>
  /\ IsFallbackGoalPlan(result) /\ delays = <<>>

\* C28: generateSchedule inserts schedule items at most once, only in an
\* attempt whose model call succeeded, and then the items it returns; an
\* insert that fails leaves the invocation returned with its result and
\* without a further attempt; nothing is inserted when all attempts failed.
C28_InsertAtMostOnce ==
  op = "generateSchedule" =>
    /\ Len(inserted) <= 1
    /\ inserted # <<>> =>
         /\ LastCallAnswered /\ pc = "returned"
         /\ inserted[1] = [table |-> "events", rows |-> result.schedule]
    /\ LastCallAnswered => pc = "returned"
    /\ ~ LastCallAnswered => inserted = <<>>

W_C28_FailedInsertSwallowed ==
  /\ op = "generateSchedule" /\ pc = "returned" /\ outcomes = <<"fail", "ok">>
  /\ lastText = <<"sched">> /\ result.schedule = <<Standup, Gym>>
  /\ inserted = <<>>

\* C21: after any sequence of GET /streak and POST /streak/update on any
\* days, the stored longestStreak is at least the stored currentStreak.
C21_LongestAtLeastCurrent ==
  \A i \in 1..Len(streaks) : streaks[i].longestStreak >= streaks[i].currentStreak

\* C22: a schedule summary stored by POST /ai/generate-schedule for a user
\* is part of what a later GET /chat/history returns to that user.
C22_ScheduleMessageInHistory ==
  history.fetched =>
    \A i \in 1..history.seen :
      (chatMessages[i].userId = history.userId
         /\ chatMessages[i].message = ScheduleSummary) =>
        \E k \in 1..Len(history.conversations) :
          \/ history.conversations[k].message = ScheduleSummary
          \/ history.conversations[k].response = ScheduleSummary

TogglesCompleted == {i \in 1..Len(toggles) : toggles[i].at = "200"}
NoToggleInFlight == \A i \in 1..Len(toggles) : toggles[i].at \in {"200", "404"}

\* C29: when the toggle requests sent for the event have all completed,
\* isCompleted is its initial value (false) negated once per completed
\* request, whatever the interleaving of their reads and writes.
C29_TogglesCompose ==
  NoToggleInFlight => (isCompleted <=> Cardinality(TogglesCompleted) % 2 = 1)

LiveSockets == {i \in 1..Len(sockets) : Live(sockets[i])}

\* C30: the service never has two sockets that are connecting or open at
\* the same time, and no socket is created by a reconnect timer after
\* disconnect() was called.
C30_AtMostOneLiveSocket ==
  /\ Cardinality(LiveSockets) <= 1
  /\ \A i \in 1..Len(sockets) : ~ sockets[i].afterDisconnect

====
